---- MODULE Spec2Model ----
(***************************************************************************)
(* The GET /:id/image pipeline of kcolford/pckthlth-int.                   *)
(*                                                                         *)
(* One request: the handler opens the file, makes the unbuffered channel   *)
(* framechan, builds an errgroup with a derived context c, starts the      *)
(* Producer (dicom.ParseUntilEOF) and the Consumer, and calls grp.Wait.    *)
(* The Consumer, once it has a frame, starts the Drain goroutine.          *)
(*                                                                         *)
(* The repository holds three listings of the handler:                     *)
(*   listing 1  src/main.go:127-176   (StatusError / ErrorHandler)         *)
(*   listing 2  src/main.go:269-322   (ctx.String(204), gin.ErrorLogger)   *)
(*   listing 3  src/unnamed/part_000:85-132 (Drain without the ok test)    *)
(* The variable listing selects the one a behaviour runs.                  *)
(*                                                                         *)
(* dicom.ParseUntilEOF and errgroup are libraries.  The parser is taken    *)
(* with the contract the handler is written against: it sends every frame  *)
(* in parse order on framechan, closes framechan when parsing ends (end of *)
(* input or error), and never looks at a context (it is not given one).    *)
(* errgroup: the first non-nil error returned by a task is kept (errOnce)  *)
(* and cancels c; Wait returns it after all tasks are done and cancels c.  *)
(* c is derived from the request context: cancelling the request cancels c.*)
(***************************************************************************)
EXTENDS Integers, Sequences, FiniteSets, TLC

\* largest number of frames of an input
MaxUnits == 3

Nil == "nil"
ParseFailure == "ParseFailure"
NoContentErr == "NoContent"
DecodeFailure == "DecodeFailure"
EncodeFailure == "EncodeFailure"
Canceled == "Canceled"

Listings == {1, 2, 3}

VARIABLES
  listing,      \* which listing of the handler runs
  units,        \* number of frames the parser finds in the file
  parseErr,     \* TRUE: parsing ends with an error after those frames
  getImageErr,  \* TRUE: f.GetImage() fails
  encodeErr,    \* TRUE: png.Encode fails
  pPc,          \* Producer: "parse", "send", "ret", "done"
  cPc,          \* Consumer: "recv", "spawn", "getimage", "encode", "write", "done"
  dPc,          \* Drain: "none", "select", "done"
  hPc,          \* handler: "wait", "waited", "done"
  sent,         \* number of completed sends on framechan
  chanClosed,   \* framechan is closed
  closedBy,     \* sequence of the tasks that called close(framechan)
  cRecv,        \* frames the Consumer received, in order
  dRecv,        \* frames the Drain received, in order
  dSawClosed,   \* the Drain has received from the closed framechan
  errSlot,      \* g.err of the errgroup
  ctxDone,      \* c.Done() is closed
  extCancelled, \* the request context was cancelled
  wg,           \* the errgroup's WaitGroup counter
  rets,         \* <<task, error>> of every returned task, in return order
  waitResult,   \* value returned by grp.Wait
  responses,    \* what was written to the response, in order
  fileClosed,   \* number of file.Close() calls
  goCalls       \* number of grp.Go calls made so far

inputs == <<listing, units, parseErr, getImageErr, encodeErr>>
vars == <<listing, units, parseErr, getImageErr, encodeErr, pPc, cPc, dPc, hPc,
          sent, chanClosed, closedBy, cRecv, dRecv, dSawClosed, errSlot,
          ctxDone, extCancelled, wg, rets, waitResult, responses, fileClosed,
          goCalls>>

Init_DrainEarly ==
  /\ listing \in Listings
  /\ units \in 0..MaxUnits
  /\ parseErr \in BOOLEAN
  /\ getImageErr \in BOOLEAN
  /\ encodeErr \in BOOLEAN
  /\ pPc = "parse"
  /\ cPc = "recv"
  /\ dPc = "select"
  /\ hPc = "wait"
  /\ sent = 0
  /\ chanClosed = FALSE
  /\ closedBy = << >>
  /\ cRecv = << >>
  /\ dRecv = << >>
  /\ dSawClosed = FALSE
  /\ errSlot = Nil
  /\ ctxDone = FALSE
  /\ extCancelled = FALSE
  /\ wg = 3
  /\ rets = << >>
  /\ waitResult = Nil
  /\ responses = << >>
  /\ fileClosed = 0
  /\ goCalls = 3

\* state once the handler has started the Producer and the Consumer and
\* is about to block in grp.Wait
Init ==
  /\ listing \in Listings
  /\ units \in 0..MaxUnits
  /\ parseErr \in BOOLEAN
  /\ getImageErr \in BOOLEAN
  /\ encodeErr \in BOOLEAN
  /\ pPc = "parse"
  /\ cPc = "recv"
  /\ dPc = "none"
  /\ hPc = "wait"
  /\ sent = 0
  /\ chanClosed = FALSE
  /\ closedBy = << >>
  /\ cRecv = << >>
  /\ dRecv = << >>
  /\ dSawClosed = FALSE
  /\ errSlot = Nil
  /\ ctxDone = FALSE
  /\ extCancelled = FALSE
  /\ wg = 2
  /\ rets = << >>
  /\ waitResult = Nil
  /\ responses = << >>
  /\ fileClosed = 0
  /\ goCalls = 2

----------------------------------------------------------------------------
\* errgroup

SetErr_Overwrite(slot, err) == IF err # Nil THEN err ELSE slot

\* g.errOnce.Do(func() { g.err = err; ... }): only the first error is kept
SetErr(slot, err) == IF err # Nil /\ slot = Nil THEN err ELSE slot

TaskDone_NoCancel(task, err) ==
  /\ errSlot' = SetErr(errSlot, err)
  /\ ctxDone' = ctxDone
  /\ wg' = wg - 1
  /\ rets' = Append(rets, <<task, err>>)

\* a task started with grp.Go returns err
TaskDone(task, err) ==
  /\ errSlot' = SetErr(errSlot, err)
  /\ ctxDone' = (ctxDone \/ err # Nil)
  /\ wg' = wg - 1
  /\ rets' = Append(rets, <<task, err>>)

----------------------------------------------------------------------------
\* Producer: dicom.ParseUntilEOF(file, framechan)

ProducerParse_Buffered ==
  /\ pPc = "parse"
  /\ sent < units
  /\ sent' = sent + 1
  /\ UNCHANGED <<inputs, pPc, cPc, dPc, hPc, chanClosed, closedBy, cRecv, dRecv,
                 dSawClosed, errSlot, ctxDone, extCancelled, wg, rets,
                 waitResult, responses, fileClosed, goCalls>>

\* the parser has decoded the next frame and blocks in framechan <- frame
ProducerParse ==
  /\ pPc = "parse"
  /\ sent < units
  /\ pPc' = "send"
  /\ UNCHANGED <<inputs, cPc, dPc, hPc, sent, chanClosed, closedBy, cRecv, dRecv,
                 dSawClosed, errSlot, ctxDone, extCancelled, wg, rets,
                 waitResult, responses, fileClosed, goCalls>>

ProducerClose_Early ==
  /\ pPc = "parse"
  /\ chanClosed' = TRUE
  /\ closedBy' = Append(closedBy, "Producer")
  /\ pPc' = "ret"
  /\ UNCHANGED <<inputs, cPc, dPc, hPc, sent, cRecv, dRecv,
                 dSawClosed, errSlot, ctxDone, extCancelled, wg, rets,
                 waitResult, responses, fileClosed, goCalls>>

ProducerClose_Skip ==
  /\ pPc = "parse"
  /\ sent = units
  /\ pPc' = "ret"
  /\ UNCHANGED <<inputs, cPc, dPc, hPc, sent, chanClosed, closedBy, cRecv, dRecv,
                 dSawClosed, errSlot, ctxDone, extCancelled, wg, rets,
                 waitResult, responses, fileClosed, goCalls>>

\* parsing has ended (end of input or error): the parser closes framechan
ProducerClose ==
  /\ pPc = "parse"
  /\ sent = units
  /\ chanClosed' = TRUE
  /\ closedBy' = Append(closedBy, "Producer")
  /\ pPc' = "ret"
  /\ UNCHANGED <<inputs, cPc, dPc, hPc, sent, cRecv, dRecv,
                 dSawClosed, errSlot, ctxDone, extCancelled, wg, rets,
                 waitResult, responses, fileClosed, goCalls>>

\* the Producer goroutine returns the parser's error
ProducerReturn ==
  /\ pPc = "ret"
  /\ pPc' = "done"
  /\ TaskDone("Producer", IF parseErr THEN ParseFailure ELSE Nil)
  /\ UNCHANGED <<inputs, cPc, dPc, hPc, sent, chanClosed, closedBy, cRecv, dRecv,
                 dSawClosed, extCancelled, waitResult, responses, fileClosed, goCalls>>

----------------------------------------------------------------------------
\* Consumer

ConsumerRecv_Again ==
  /\ cPc = "recv"
  /\ pPc = "send"
  /\ cRecv' = Append(cRecv, sent + 1)
  /\ sent' = sent + 1
  /\ pPc' = "parse"
  /\ cPc' = "recv"
  /\ UNCHANGED <<inputs, dPc, hPc, chanClosed, closedBy, dRecv,
                 dSawClosed, errSlot, ctxDone, extCancelled, wg, rets,
                 waitResult, responses, fileClosed, goCalls>>

\* f, ok := <-framechan with ok: the rendezvous with the blocked sender
ConsumerRecv ==
  /\ cPc = "recv"
  /\ pPc = "send"
  /\ cRecv' = Append(cRecv, sent + 1)
  /\ sent' = sent + 1
  /\ pPc' = "parse"
  /\ cPc' = "spawn"
  /\ UNCHANGED <<inputs, dPc, hPc, chanClosed, closedBy, dRecv,
                 dSawClosed, errSlot, ctxDone, extCancelled, wg, rets,
                 waitResult, responses, fileClosed, goCalls>>

ConsumerRecvClosed_Spawn ==
  /\ cPc = "recv"
  /\ chanClosed
  /\ cPc' = "done"
  /\ dPc' = "select"
  /\ goCalls' = goCalls + 1
  /\ errSlot' = SetErr(errSlot, NoContentErr)
  /\ ctxDone' = TRUE
  /\ rets' = Append(rets, <<"Consumer", NoContentErr>>)
  /\ UNCHANGED <<inputs, pPc, hPc, sent, chanClosed, closedBy, cRecv, dRecv,
                 dSawClosed, extCancelled, wg, waitResult, responses,
                 fileClosed>>

\* f, ok := <-framechan with !ok.  Listing 1 returns the StatusError 204;
\* listings 2 and 3 write the 204 response and return nil.
ConsumerRecvClosed ==
  /\ cPc = "recv"
  /\ chanClosed
  /\ cPc' = "done"
  /\ IF listing = 1
       THEN /\ TaskDone("Consumer", NoContentErr)
            /\ UNCHANGED responses
       ELSE /\ TaskDone("Consumer", Nil)
            /\ responses' = Append(responses, "NoContent")
  /\ UNCHANGED <<inputs, pPc, dPc, hPc, sent, chanClosed, closedBy, cRecv, dRecv,
                 dSawClosed, extCancelled, waitResult, fileClosed, goCalls>>

ConsumerSpawnDrain_Forgot ==
  /\ cPc = "spawn"
  /\ cPc' = "getimage"
  /\ UNCHANGED <<inputs, pPc, dPc, hPc, sent, chanClosed, closedBy, cRecv, dRecv,
                 dSawClosed, errSlot, ctxDone, extCancelled, wg, rets,
                 waitResult, responses, fileClosed, goCalls>>

\* grp.Go(func() error { for { select ... } })
ConsumerSpawnDrain ==
  /\ cPc = "spawn"
  /\ dPc' = "select"
  /\ wg' = wg + 1
  /\ goCalls' = goCalls + 1
  /\ cPc' = "getimage"
  /\ UNCHANGED <<inputs, pPc, hPc, sent, chanClosed, closedBy, cRecv, dRecv,
                 dSawClosed, errSlot, ctxDone, extCancelled, rets,
                 waitResult, responses, fileClosed>>

\* img, err := f.GetImage(); if err != nil { return }
ConsumerGetImage ==
  /\ cPc = "getimage"
  /\ IF getImageErr
       THEN /\ cPc' = "done"
            /\ TaskDone("Consumer", DecodeFailure)
       ELSE /\ cPc' = "encode"
            /\ UNCHANGED <<errSlot, ctxDone, wg, rets>>
  /\ UNCHANGED <<inputs, pPc, dPc, hPc, sent, chanClosed, closedBy, cRecv, dRecv,
                 dSawClosed, extCancelled, waitResult, responses, fileClosed, goCalls>>

\* err = png.Encode(buf, img); if err != nil { return }
ConsumerEncode ==
  /\ cPc = "encode"
  /\ IF encodeErr
       THEN /\ cPc' = "done"
            /\ TaskDone("Consumer", EncodeFailure)
       ELSE /\ cPc' = "write"
            /\ UNCHANGED <<errSlot, ctxDone, wg, rets>>
  /\ UNCHANGED <<inputs, pPc, dPc, hPc, sent, chanClosed, closedBy, cRecv, dRecv,
                 dSawClosed, extCancelled, waitResult, responses, fileClosed, goCalls>>

\* ctx.DataFromReader(http.StatusOK, ...); return
ConsumerWrite ==
  /\ cPc = "write"
  /\ responses' = Append(responses, "Image")
  /\ cPc' = "done"
  /\ TaskDone("Consumer", Nil)
  /\ UNCHANGED <<inputs, pPc, dPc, hPc, sent, chanClosed, closedBy, cRecv, dRecv,
                 dSawClosed, extCancelled, waitResult, fileClosed, goCalls>>

----------------------------------------------------------------------------
\* Drain

\* case <-c.Done(): return c.Err()
DrainCancel ==
  /\ dPc = "select"
  /\ ctxDone
  /\ dPc' = "done"
  /\ TaskDone("Drain", Canceled)
  /\ UNCHANGED <<inputs, pPc, cPc, hPc, sent, chanClosed, closedBy, cRecv, dRecv,
                 dSawClosed, extCancelled, waitResult, responses, fileClosed, goCalls>>

\* case _, ok := <-framechan with a blocked sender: the frame is discarded
DrainRecv ==
  /\ dPc = "select"
  /\ pPc = "send"
  /\ dRecv' = Append(dRecv, sent + 1)
  /\ sent' = sent + 1
  /\ pPc' = "parse"
  /\ UNCHANGED <<inputs, cPc, dPc, hPc, chanClosed, closedBy, cRecv,
                 dSawClosed, errSlot, ctxDone, extCancelled, wg, rets,
                 waitResult, responses, fileClosed, goCalls>>

DrainRecvClosed_Loop ==
  /\ dPc = "select"
  /\ chanClosed
  /\ dSawClosed' = TRUE
  /\ UNCHANGED <<inputs, pPc, cPc, dPc, hPc, sent, chanClosed, closedBy, cRecv,
                 dRecv, errSlot, ctxDone, extCancelled, wg, rets,
                 waitResult, responses, fileClosed, goCalls>>

\* case <-framechan on the closed channel.  Listings 1 and 2 test ok and
\* return nil; listing 3 has no test and goes round the loop again.
DrainRecvClosed ==
  /\ dPc = "select"
  /\ chanClosed
  /\ dSawClosed' = TRUE
  /\ IF listing = 3
       THEN UNCHANGED <<dPc, errSlot, ctxDone, wg, rets>>
       ELSE /\ dPc' = "done"
            /\ TaskDone("Drain", Nil)
  /\ UNCHANGED <<inputs, pPc, cPc, hPc, sent, chanClosed, closedBy, cRecv, dRecv,
                 extCancelled, waitResult, responses, fileClosed, goCalls>>

----------------------------------------------------------------------------
\* handler and middleware

\* what the error path writes for a non-nil handler error:
\* listing 1 ErrorHandler takes the status of a StatusError, else 500;
\* listing 2 gin.ErrorLogger and listing 3 ginfn write the error as JSON
ErrorResponse(l, err) ==
  IF l = 1 /\ err = NoContentErr THEN "NoContent" ELSE "Failure"

GrpWait_NoWait ==
  /\ hPc = "wait"
  /\ waitResult' = errSlot
  /\ ctxDone' = TRUE
  /\ hPc' = "waited"
  /\ UNCHANGED <<inputs, pPc, cPc, dPc, sent, chanClosed, closedBy, cRecv, dRecv,
                 dSawClosed, errSlot, extCancelled, wg, rets, responses,
                 fileClosed, goCalls>>

\* return grp.Wait(): all tasks are done; Wait cancels c and returns g.err
GrpWait ==
  /\ hPc = "wait"
  /\ wg = 0
  /\ waitResult' = errSlot
  /\ ctxDone' = TRUE
  /\ hPc' = "waited"
  /\ UNCHANGED <<inputs, pPc, cPc, dPc, sent, chanClosed, closedBy, cRecv, dRecv,
                 dSawClosed, errSlot, extCancelled, wg, rets, responses,
                 fileClosed, goCalls>>

\* the handler returns: defer file.Close(), ginfn records the error and the
\* error path writes the error response
HandlerReturn ==
  /\ hPc = "waited"
  /\ fileClosed' = fileClosed + 1
  /\ responses' = IF waitResult # Nil
                    THEN Append(responses, ErrorResponse(listing, waitResult))
                    ELSE responses
  /\ hPc' = "done"
  /\ UNCHANGED <<inputs, pPc, cPc, dPc, sent, chanClosed, closedBy, cRecv, dRecv,
                 dSawClosed, errSlot, ctxDone, extCancelled, wg, rets,
                 waitResult, goCalls>>

\* the request context is cancelled (client disconnect, deadline)
ExternalCancel ==
  /\ hPc # "done"
  /\ ~extCancelled
  /\ extCancelled' = TRUE
  /\ ctxDone' = TRUE
  /\ UNCHANGED <<inputs, pPc, cPc, dPc, hPc, sent, chanClosed, closedBy, cRecv,
                 dRecv, dSawClosed, errSlot, wg, rets, waitResult, responses,
                 fileClosed, goCalls>>

Next ==
  \/ ProducerParse
  \/ ProducerClose
  \/ ProducerReturn
  \/ ConsumerRecv
  \/ ConsumerRecvClosed
  \/ ConsumerSpawnDrain
  \/ ConsumerGetImage
  \/ ConsumerEncode
  \/ ConsumerWrite
  \/ DrainCancel
  \/ DrainRecv
  \/ DrainRecvClosed
  \/ GrpWait
  \/ HandlerReturn
  \/ ExternalCancel

Spec == Init /\ [][Next]_vars

\* every goroutine that can run is eventually run; the request context is
\* cancelled by the environment and is under no obligation
FairSpec ==
  /\ Spec
  /\ WF_vars(ProducerParse)
  /\ WF_vars(ProducerClose)
  /\ WF_vars(ProducerReturn)
  /\ WF_vars(ConsumerRecv)
  /\ WF_vars(ConsumerRecvClosed)
  /\ WF_vars(ConsumerSpawnDrain)
  /\ WF_vars(ConsumerGetImage)
  /\ WF_vars(ConsumerEncode)
  /\ WF_vars(ConsumerWrite)
  /\ WF_vars(DrainCancel)
  /\ WF_vars(DrainRecv)
  /\ WF_vars(DrainRecvClosed)
  /\ WF_vars(GrpWait)
  /\ WF_vars(HandlerReturn)

----------------------------------------------------------------------------
TypeOK ==
  /\ listing \in Listings
  /\ units \in 0..MaxUnits
  /\ pPc \in {"parse", "send", "ret", "done"}
  /\ cPc \in {"recv", "spawn", "getimage", "encode", "write", "done"}
  /\ dPc \in {"none", "select", "done"}
  /\ hPc \in {"wait", "waited", "done"}
  /\ sent \in 0..units
  /\ wg \in 0..3

----------------------------------------------------------------------------
\* derived state

Returned(task) == \E i \in 1..Len(rets) : rets[i][1] = task

ReturnedWith(task, err) == \E i \in 1..Len(rets) : rets[i] = <<task, err>>

\* position of a task's return in the order of returns (0: not returned)
RetIndex(task) ==
  IF Returned(task) THEN CHOOSE i \in 1..Len(rets) : rets[i][1] = task ELSE 0

\* Producer, Consumer and (if it was started) Drain have returned and
\* grp.Wait has returned
AllReturned ==
  /\ pPc = "done"
  /\ cPc = "done"
  /\ dPc # "select"
  /\ hPc # "wait"

\* the frames 2..units in parse order
RestUnits == [i \in 1..(units - 1) |-> i + 1]

----------------------------------------------------------------------------
\* C1: in listing 1, for an input with N >= 1 frames that parses without
\* error and whose first frame is materialized and encoded without error,
\* every run in which the request is not cancelled reaches the state where
\* the Consumer has received frame 1, the Drain has received frames 2..N,
\* the three tasks have returned and grp.Wait has returned nil.
C1_Case ==
  /\ listing = 1
  /\ units >= 1
  /\ ~parseErr
  /\ ~getImageErr
  /\ ~encodeErr

C1_Goal ==
  /\ cRecv = <<1>>
  /\ dRecv = RestUnits
  /\ AllReturned
  /\ dPc = "done"
  /\ waitResult = Nil
  /\ errSlot = Nil

C1_Success == (C1_Case /\ ~extCancelled) ~> (C1_Goal \/ extCancelled)

C1_Witness ==
  /\ C1_Case
  /\ units = 3
  /\ ~extCancelled
  /\ C1_Goal
  /\ hPc = "done"
  /\ responses = <<"Image">>

\* the Producer is blocked in a send that no task will ever receive: the
\* Consumer is past its only receive and the Drain has returned
ProducerStuck ==
  /\ pPc = "send"
  /\ cPc # "recv"
  /\ dPc = "done"

\* C2: the Producer is never permanently blocked on a send: in listing 1,
\* when the Consumer has returned a GetImage or png.Encode failure after
\* receiving frame 1 (and the request is not cancelled), the Producer is
\* never left in a send that no task will receive.
C2_ConsumerFailed ==
  /\ Len(cRecv) = 1
  /\ \/ ReturnedWith("Consumer", DecodeFailure)
     \/ ReturnedWith("Consumer", EncodeFailure)

C2_ProducerNeverStuck ==
  (listing = 1 /\ C2_ConsumerFailed /\ ~extCancelled) => ~ProducerStuck

\* C3: in listing 1, when the request context is cancelled during the parse
\* of an input of several frames (no parse, GetImage or Encode error), the
\* Producer is never left in a send that no task will receive, so the three
\* tasks can return and grp.Wait can return.
C3_CancelNeverStuck ==
  (/\ listing = 1
   /\ extCancelled
   /\ units >= 2
   /\ ~parseErr /\ ~getImageErr /\ ~encodeErr) => ~ProducerStuck

\* no task has returned a non-nil error to the errgroup
NoTaskFailed == \A i \in 1..Len(rets) : rets[i][2] = Nil

\* C4: in listings 1 and 2, for an input with 0 frames that parses without
\* error, when the request has been handled the Consumer has received
\* nothing, the outcome is NoContent, the Drain was never started, no task
\* has returned a failure to the errgroup and grp.Wait has returned nil.
C4_NoContentIsNotAFailure ==
  (listing \in {1, 2} /\ units = 0 /\ ~parseErr /\ hPc = "done") =>
     /\ cRecv = << >>
     /\ dPc = "none"
     /\ responses = <<"NoContent">>
     /\ NoTaskFailed
     /\ waitResult = Nil

\* C5: in listing 1, when the Producer fails before sending any frame, the
\* value grp.Wait returns is the Producer's ParseFailure (and not the
\* NoContent error), whichever of Producer and Consumer returns first.
C5_ParseFailureWins ==
  (listing = 1 /\ units = 0 /\ parseErr /\ hPc # "wait") =>
     waitResult = ParseFailure

\* C6: in listing 1, when the Consumer has written the image and returned
\* nil before the Producer returned its parse error (request not cancelled),
\* the handler returns nil and the only thing written to the response is
\* the image.
C6_ImageNotRetracted ==
  (/\ listing = 1
   /\ hPc = "done"
   /\ ~extCancelled
   /\ ReturnedWith("Consumer", Nil)
   /\ ReturnedWith("Producer", ParseFailure)
   /\ RetIndex("Consumer") < RetIndex("Producer")) =>
     /\ waitResult = Nil
     /\ responses = <<"Image">>

\* C7: framechan is closed at most once and only by the Producer, after its
\* last send; no send completes or is pending once it is closed; once the
\* Producer has returned (end of input or error) framechan is closed.
C7_CloseState ==
  /\ Len(closedBy) <= 1
  /\ \A i \in 1..Len(closedBy) : closedBy[i] = "Producer"
  /\ chanClosed <=> (closedBy # << >>)
  /\ chanClosed => (sent = units /\ pPc \in {"ret", "done"})
  /\ pPc = "done" => chanClosed

C8_AllRecv == cRecv \o dRecv

C8_EachUnitOnce ==
  /\ Len(cRecv) <= 1
  /\ Len(C8_AllRecv) = sent
  /\ \A u \in 1..sent :
       Cardinality({i \in 1..Len(C8_AllRecv) : C8_AllRecv[i] = u}) = 1
  /\ \A i \in 1..Len(dRecv) : \A j \in 1..Len(cRecv) : dRecv[i] # cRecv[j]

C8_Witness ==
  /\ units = 3
  /\ sent = 3
  /\ Len(cRecv) = 1
  /\ Len(dRecv) = 2
  /\ cPc = "done"

\* the first non-nil error in the order of task returns, else nil
FirstFailure ==
  IF NoTaskFailed THEN Nil
  ELSE rets[CHOOSE i \in 1..Len(rets) :
              /\ rets[i][2] # Nil
              /\ \A j \in 1..(i - 1) : rets[j][2] = Nil][2]

\* C9: grp.Wait returns the first failure returned by a task, else nil; once
\* the errgroup's error is set it is never overwritten, in particular not by
\* the Canceled a task returns because of that first failure.
C9_FirstErrorWins ==
  /\ [](errSlot = FirstFailure)
  /\ [](hPc # "wait" => waitResult = FirstFailure)
  /\ [][errSlot # Nil => errSlot' = errSlot]_vars

C9_Witness ==
  /\ hPc = "done"
  /\ ~extCancelled
  /\ ReturnedWith("Consumer", DecodeFailure)
  /\ ReturnedWith("Drain", Canceled)
  /\ RetIndex("Consumer") < RetIndex("Drain")
  /\ waitResult = DecodeFailure

\* C10: in listing 1, the value grp.Wait returns is never the Canceled that
\* the Drain returned on leaving through <-c.Done().
C10_DrainCancelNotEscalated ==
  (listing = 1 /\ hPc # "wait" /\ ReturnedWith("Drain", Canceled)) =>
     waitResult # Canceled

\* C11: frames are received in parse order: the frames received by the
\* Consumer followed by those received by the Drain are the first frames the
\* Producer sent, in order, and the frame the Consumer receives is frame 1.
C11_ParseOrder ==
  /\ cRecv \o dRecv = [i \in 1..sent |-> i]
  /\ \A i \in 1..Len(cRecv) : cRecv[i] = 1
  /\ \A i \in 1..Len(dRecv) : dRecv[i] = i + 1

C11_Witness ==
  /\ units = 3
  /\ cRecv = <<1>>
  /\ dRecv = <<2, 3>>
  /\ responses = <<"Image">>
  /\ pPc = "ret"

\* C12: the Drain is started at most once per request and only by a
\* Consumer that has received a frame; it is never started when the
\* Consumer finds framechan closed and empty; the errgroup never holds more
\* than three tasks.
C12_DrainState ==
  /\ goCalls \in {2, 3}
  /\ wg <= 3
  /\ dPc # "none" <=> goCalls = 3
  /\ dPc # "none" => Len(cRecv) = 1
  /\ (cPc = "done" /\ cRecv = << >>) => dPc = "none"

C12_DrainSpawnedOnce ==
  /\ []C12_DrainState
  /\ [][goCalls' # goCalls =>
          (goCalls' = goCalls + 1 /\ dPc = "none" /\ cPc = "spawn")]_vars

C12_Witness ==
  /\ goCalls = 3
  /\ dPc = "done"
  /\ cPc = "done"
  /\ units = 2
  /\ hPc = "done"

\* C13: whenever the Consumer has received its frame and is in GetImage,
\* in png.Encode, writing, or has returned, the Drain has already been
\* started in the errgroup.
C13_ConsumerStoppedReading ==
  \/ cPc \in {"getimage", "encode", "write"}
  \/ (cPc = "done" /\ Len(cRecv) = 1)

C13_DrainAlreadySpawned == C13_ConsumerStoppedReading => dPc # "none"

C13_Witness ==
  /\ cPc = "encode"
  /\ dPc = "select"
  /\ pPc = "send"
  /\ sent = 1

\* C14: the opened file is closed by the handler only after grp.Wait has
\* returned: it is never closed while the Producer, the Consumer or the
\* Drain is still running; it is never closed twice, and it has been closed
\* once when the handler has returned.
C14_FileClosedAfterWait ==
  /\ fileClosed <= 1
  /\ fileClosed > 0 => (hPc = "done" /\ pPc = "done" /\ cPc = "done"
                          /\ dPc # "select" /\ wg = 0)
  /\ hPc = "done" => fileClosed = 1

C14_Witness ==
  /\ fileClosed = 1
  /\ hPc = "done"
  /\ pPc = "done"
  /\ units = 3
  /\ parseErr

\* C15: in listing 3 (src/unnamed/part_000), for an input with N >= 1 frames
\* and no failure or cancellation, once the Drain has received from the
\* closed framechan it has returned nil.
C15_DrainReturnsOnClose ==
  (/\ listing = 3
   /\ units >= 1
   /\ ~parseErr /\ ~getImageErr /\ ~encodeErr
   /\ ~extCancelled
   /\ dSawClosed) => ReturnedWith("Drain", Nil)

\* C16: in listing 1, at most one outcome (Image, NoContent or Failure) is
\* written to the response of a request (request not cancelled).
C16_OneOutcome ==
  (listing = 1 /\ ~extCancelled) => Len(responses) <= 1

\* C17: whenever the errgroup's error is set, c.Done() is closed; and while
\* no task has failed, the request context is not cancelled and grp.Wait has
\* not returned, c.Done() is not closed.
C17_CancelOnFailure ==
  /\ errSlot # Nil => ctxDone
  /\ ~NoTaskFailed => ctxDone
  /\ (NoTaskFailed /\ ~extCancelled /\ hPc = "wait") => ~ctxDone

C17_Witness ==
  /\ errSlot = DecodeFailure
  /\ ctxDone
  /\ ~extCancelled
  /\ hPc = "wait"
  /\ dPc = "select"

\* C18: framechan is a rendezvous: the number of completed sends equals the
\* number of frames received, a send completes only together with one
\* receive, and the Producer starts on frame k+1 only after frame k was
\* taken, so it waits in the send while no receiver takes the frame.
C18_Received == Len(cRecv) + Len(dRecv)

C18_Rendezvous ==
  /\ [](C18_Received = sent)
  /\ [][sent' # sent =>
          /\ pPc = "send"
          /\ pPc' = "parse"
          /\ sent' = sent + 1
          /\ Len(cRecv') + Len(dRecv') = C18_Received + 1]_vars
  /\ [][(pPc = "send" /\ pPc' # "send") => sent' = sent + 1]_vars

C18_Witness ==
  /\ pPc = "send"
  /\ sent = 1
  /\ C18_Received = 1
  /\ cPc = "spawn"
  /\ dPc = "none"

\* C19: when the input has at least one frame, the Consumer's receive yields
\* frame 1: the Consumer never takes the closed-channel branch and the
\* outcome is never NoContent, however the Producer's close interleaves.
C19_NoContentOnlyIfEmpty ==
  units >= 1 =>
    /\ ~ReturnedWith("Consumer", NoContentErr)
    /\ \A i \in 1..Len(responses) : responses[i] # "NoContent"
    /\ cPc # "recv" => cRecv = <<1>>

C19_Witness ==
  /\ listing = 1
  /\ units = 1
  /\ chanClosed
  /\ cPc = "getimage"
  /\ cRecv = <<1>>
  /\ pPc = "done"

====
